---- MODULE Spec2Model ----
(***************************************************************************)
(* A model of pytailer's LogWatcher (src/pytailer.py): the backward block  *)
(* scan of tail(), and the watch table driven by update_files(), watch(),  *)
(* unwatch(), readlines(), loop() and close(), running against a file      *)
(* system that other processes append to and rotate between any two        *)
(* system calls of the watcher.                                            *)
(***************************************************************************)
EXTENDS Integers, Sequences, FiniteSets, TLC

\* ------------------------------------------------------------------------
\* Bounds of the model
\* ------------------------------------------------------------------------
\* lines (newline-terminated) of a file handed to tail() in SpecTail
MaxTailLines == 3
\* files ever created in the watched directory
MaxInode == 2
\* lines ever appended to one file
MaxLines == 2
\* times the consumer callback raises
MaxRaises == 1
\* close() calls recorded
MaxClose == 2

\* ------------------------------------------------------------------------
\* Program constants and inputs
\* ------------------------------------------------------------------------
\* tail(): BUFSIZ = 1024
BUFSIZ == 1024
\* st_dev of the one file system the watched names live on
Dev == 1
\* bytes of every line written to a watched file (newline included)
LineBytes == 2
\* readlines(sizehint): lines returned by one call, in lines of LineBytes
SizeHintLines == 1

Abs(x) == IF x < 0 THEN 0 - x ELSE x
Min(x, y) == IF x < y THEN x ELSE y
Max(x, y) == IF x < y THEN y ELSE x

\* ------------------------------------------------------------------------
\* Files as bytes: a file is its size and the offsets of its newline bytes;
\* a byte is named by its offset, so data read from a file is a sequence of
\* offsets.
\* ------------------------------------------------------------------------
RECURSIVE SumTo(_, _)
SumTo(lens, k) == IF k = 0 THEN 0 ELSE lens[k] + SumTo(lens, k - 1)

\* the file made of Len(lens) lines, line k of lens[k] bytes counting its
\* newline, followed by trail bytes without a newline
MkFile(lens, trail) ==
    [size |-> SumTo(lens, Len(lens)) + trail,
     nl   |-> {SumTo(lens, k) - 1 : k \in 1..Len(lens)}]

\* f.seek(pos); f.read(n): the bytes from pos up to end of file, at most n of
\* them (all of them when n is negative)
ReadAt(f, pos, n) ==
    LET avail == Max(f.size - pos, 0)
        k == IF n < 0 THEN avail ELSE Min(n, avail)
    IN  [i \in 1..k |-> pos + i - 1]

\* data.count(CR)
CountCR(f, data) == Cardinality({i \in 1..Len(data) : data[i] \in f.nl})

\* data.splitlines(): the pieces between newlines, newline dropped, no empty
\* piece after a final newline
RECURSIVE SplitFrom(_, _, _)
SplitFrom(f, data, i) ==
    IF i > Len(data) THEN <<>>
    ELSE LET nls == {j \in i..Len(data) : data[j] \in f.nl}
         IN  IF nls = {} THEN <<SubSeq(data, i, Len(data))>>
             ELSE LET j == CHOOSE x \in nls : \A y \in nls : x <= y
                  IN  <<SubSeq(data, i, j - 1)>> \o SplitFrom(f, data, j + 1)
SplitLines(f, data) == SplitFrom(f, data, 1)

\* seq[-n:] for n >= 1
LastN(seq, n) == SubSeq(seq, Max(Len(seq) - n, 0) + 1, Len(seq))

\* the whole file, and its lines
WholeFile(f) == [i \in 1..f.size |-> i - 1]
FileLines(f) == SplitLines(f, WholeFile(f))

\* ------------------------------------------------------------------------
\* tail(fname, window): the backward block scan
\* ------------------------------------------------------------------------
\* locals of tail() before the while loop
TailEnter == [data |-> <<>>, block |-> -1, exit |-> FALSE, brk |-> FALSE]

TailFinalReadBlock(f, step) == ReadAt(f, 0, BUFSIZ)

TailFinalRead(f, step) == ReadAt(f, 0, BUFSIZ - (Abs(step) - f.size))

TailBlockRead(f, step) == ReadAt(f, f.size + step, BUFSIZ)

TailEnough(f, data, window) == CountCR(f, data) >= window

\* one iteration of `while not exit`
TailIter(f, window, t) ==
    LET step    == t.block * BUFSIZ
        final   == Abs(step) >= f.size
        newdata == IF final THEN TailFinalRead(f, step) ELSE TailBlockRead(f, step)
        data    == newdata \o t.data
        enough  == TailEnough(f, data, window)
    IN  [data  |-> data,
         block |-> IF enough THEN t.block ELSE t.block - 1,
         exit  |-> t.exit \/ final,
         brk   |-> enough]

TailLoopDone(t) == t.exit \/ t.brk

\* return data.splitlines()[-window:]
TailResult(f, window, t) == LastN(SplitLines(f, t.data), window)

RECURSIVE TailRun(_, _, _)
TailRun(f, window, t) ==
    IF TailLoopDone(t) THEN TailResult(f, window, t)
    ELSE TailRun(f, window, TailIter(f, window, t))

\* tail() of an existing file with window > 0
TailOf(f, window) == TailRun(f, window, TailEnter)

\* ------------------------------------------------------------------------
\* State
\* ------------------------------------------------------------------------
VARIABLES
    \* the file system, shared with the writers and the rotating process
    fs,          \* name -> inode of the regular file under it, 0 when absent
    size,        \* inode -> lines written to the file so far
    ninodes,     \* inodes created so far
    rots,        \* history: 0 or 1, the rotations since the last poll cycle
                 \* began, when every rotation so far fell between two
                 \* cycles and no two between the same two; 2 otherwise
    \* the LogWatcher object
    handles,     \* file objects returned by open() in watch(), by creation
    files_map,   \* self._files_map: file id -> [file, type]
    tail_lines,  \* the tail_lines argument of __init__
    cbLenient,   \* TRUE when the callback's third parameter has a default
    \* the thread of control running the watcher
    pc,          \* the statement it is at
    ctx,         \* the public method it is inside: "init", "loop" or "none"
    blocking,    \* the blocking argument of loop()
    ls,          \* update_files: the list ls
    idx,         \* index into self.filelist or ls of the running for loop
    todo,        \* keys of the list(items()) snapshot not yet visited
    cur,         \* key of the entry being unwatched, tailed or read
    after,       \* unwatch: the branch of update_files that called it
    err,         \* the exception that reached the caller, "none" if none
    \* what the outside saw
    calls,       \* invocations of self._callback, in order
    raises,      \* times the callback raised
    nclose,      \* close() calls made
    \* tail() run on its own (SpecTail)
    tfile, twindow, tstate, tpc, tresult

fsVars   == <<fs, size, ninodes, rots>>
objVars  == <<handles, files_map, tail_lines, cbLenient>>
ctlVars  == <<pc, ctx, blocking, ls, idx, todo, cur, after, err>>
obsVars  == <<calls, raises, nclose>>
tailVars == <<tfile, twindow, tstate, tpc, tresult>>
vars     == <<fsVars, objVars, ctlVars, obsVars, tailVars>>

\* ------------------------------------------------------------------------
\* Inputs
\* ------------------------------------------------------------------------
\* the watched names
Paths == {"a"}
\* filelist: [name, type] pairs
FileList == <<[name |-> "a", type |-> "ta"]>>
\* inode of the file under each name before the watcher starts
FirstInode(p) == 1
\* <<tail_lines, lenient>> pairs the watcher is constructed with: lenient is
\* TRUE for a callback that can also be called with two arguments
ConstructInputs == {<<0, FALSE>>, <<-1, FALSE>>, <<1, FALSE>>, <<1, TRUE>>}
\* window values tail() is called with in SpecTail
TailWindows == {-1, 0, 1, 2, 3, 4}
\* line lengths (newline included) and unterminated rests of the files
\* handed to tail() in SpecTail
LineLens == {1, 600, 1024}
Trails == {0, 3}

NoFid == <<>>
Inodes == 1..MaxInode

\* ------------------------------------------------------------------------
\* os.stat, get_file_id, the table
\* ------------------------------------------------------------------------
Exists(p) == fs[p] # 0
OsStat(p) == [st_dev |-> Dev, st_ino |-> fs[p]]
\* "%xg%x" % (st.st_dev, st.st_ino): one-to-one on (st_dev, st_ino)
get_file_id(st) == <<st.st_dev, st.st_ino>>

MapPut(m, k, v) == [x \in DOMAIN m \cup {k} |-> IF x = k THEN v ELSE m[x]]
MapDel(m, k) == [x \in DOMAIN m \ {k} |-> m[x]]
EmptyMap == [x \in {} |-> 0]

\* a watched file of n lines, as bytes
ByteFile(n) == MkFile([k \in 1..n |-> LineBytes], 0)

\* open(fname, 'rb') in watch(): a new file object on the file now under
\* fname, cursor at 0.  The other fields are history: ctor, opened inside
\* __init__; eof0, the file's length when it was opened; start, the cursor
\* __init__ placed (0 until then); sized, the file whose size __init__ took
\* (0 until then).
NewHandleAtEof(p) ==
    [name |-> p, ino |-> fs[p], pos |-> size[fs[p]], open |-> TRUE, closes |-> 0,
     ctor |-> (ctx = "init"), eof0 |-> size[fs[p]], start |-> 0, sized |-> 0]

NewHandle(p) ==
    [name |-> p, ino |-> fs[p], pos |-> 0, open |-> TRUE, closes |-> 0,
     ctor |-> (ctx = "init"), eof0 |-> size[fs[p]], start |-> 0, sized |-> 0]

\* file.seek(os.path.getsize(file.name)): the cursor goes to the size of the
\* file now under the name
SeekEnd(h) ==
    [h EXCEPT !.pos = size[fs[h.name]], !.start = size[fs[h.name]],
              !.sized = fs[h.name]]

\* file.close()
Closed(h) == [h EXCEPT !.open = FALSE, !.closes = Min(@ + 1, MaxClose)]

\* file.readlines(self._sizehint): the line numbers (lo, hi] of the next batch
BatchHi(h) == Min(size[h.ino], h.pos + SizeHintLines)
HasLinesAlways(h) == TRUE

HasLines(h) == h.pos < size[h.ino]

\* self._callback(file.name, lines, _type)
Call3(i, h, hi, t, via) ==
    [name |-> h.name, ino |-> h.ino, lo |-> h.pos, hi |-> hi, nargs |-> 3,
     type |-> t, via |-> via, recv |-> TRUE, file |-> i]

AdvanceStuck(h, hi) == h

AdvanceRewind(h, hi) == [h EXCEPT !.pos = 0]

\* the cursor after the batch up to line hi was read
Advance(h, hi) == [h EXCEPT !.pos = hi]

\* self._callback(file.name, lines) with the lines tail() returned for the
\* file of n lines now under the name
Call2(p, lines) ==
    [name |-> p, ino |-> fs[p], lo |-> lines[1][1] \div LineBytes,
     hi |-> (lines[Len(lines)][1] \div LineBytes) + 1, nargs |-> 2,
     type |-> "none", via |-> "tail", recv |-> cbLenient, file |-> 0]

\* ------------------------------------------------------------------------
\* Where control goes next.  Each gives [pc, idx, todo].
\* ------------------------------------------------------------------------
CycleEndSleeps == [pc |-> "sleep", idx |-> 1, todo |-> {}]

\* loop(): after the for loop over the table
CycleEnd == [pc |-> IF blocking THEN "sleep" ELSE "idle", idx |-> 1, todo |-> {}]

\* update_files() returns to __init__ or to loop(), which iterate over a
\* snapshot of the table m
Return(m) ==
    IF ctx = "init"
    THEN IF DOMAIN m = {} THEN [pc |-> "idle", idx |-> 1, todo |-> {}]
         ELSE [pc |-> "init_seek", idx |-> 1, todo |-> DOMAIN m]
    ELSE IF DOMAIN m = {} THEN CycleEnd
         ELSE [pc |-> "lp_read", idx |-> 1, todo |-> DOMAIN m]

\* update_files(), "add new ones": the next entry of l from index i on whose
\* fid is not in the table m is watched
AddFrom(i, l, m) ==
    LET new == {j \in i..Len(l) : l[j].fid \notin DOMAIN m}
    IN  IF new = {} THEN Return(m)
        ELSE [pc |-> "w_open", idx |-> CHOOSE j \in new : \A k \in new : j <= k,
              todo |-> {}]

\* update_files(), "check existent files": the entries t of the snapshot are
\* left to visit
CheckNext(t, l, m) ==
    IF t # {} THEN [pc |-> "uf_check", idx |-> 1, todo |-> t]
    ELSE AddFrom(1, l, m)

\* __init__: the entries t of the snapshot are left to seek and tail
InitNext(t) ==
    IF t # {} THEN [pc |-> "init_seek", idx |-> 1, todo |-> t]
    ELSE [pc |-> "idle", idx |-> 1, todo |-> {}]

\* loop(): the entries t of the snapshot are left to read
ReadNext(t) ==
    IF t # {} THEN [pc |-> "lp_read", idx |-> 1, todo |-> t]
    ELSE CycleEnd

Goto(c) == pc' = c.pc /\ idx' = c.idx /\ todo' = c.todo

\* an exception leaves the running public method
Raise(e) ==
    /\ pc' = "raised"
    /\ err' = e
    /\ idx' = 1
    /\ todo' = {}
    /\ cur' = NoFid
    /\ after' = "none"
    /\ ls' = <<>>

\* ------------------------------------------------------------------------
\* __init__
\* ------------------------------------------------------------------------
\* lines 47-52: the fields are set and update_files() is entered
Construct(tl, lenient) ==
    /\ pc = "new"
    /\ tail_lines' = tl
    /\ cbLenient' = lenient
    /\ files_map' = EmptyMap
    /\ ctx' = "init"
    /\ pc' = "uf_stat"
    /\ idx' = 1
    /\ ls' = <<>>
    /\ UNCHANGED <<fsVars, handles, blocking, todo, cur, after, err, obsVars, tailVars>>

\* line 56: file.seek(os.path.getsize(file.name)) for one entry of the
\* snapshot; getsize of a name that is gone raises
InitSeek(fid) ==
    /\ pc = "init_seek"
    /\ fid \in todo
    /\ LET h == files_map[fid].file
           p == handles[h].name
       IN  IF ~Exists(p)
           THEN /\ Raise("OSError")
                /\ UNCHANGED handles
           ELSE /\ handles' = [handles EXCEPT ![h] = SeekEnd(handles[h])]
                /\ err' = err /\ after' = after /\ ls' = ls
                /\ IF tail_lines # 0
                   THEN /\ pc' = "init_tail"
                        /\ cur' = fid
                        /\ todo' = todo \ {fid}
                        /\ idx' = idx
                   ELSE /\ cur' = cur
                        /\ Goto(InitNext(todo \ {fid}))
    /\ UNCHANGED <<fsVars, files_map, tail_lines, cbLenient, ctx, blocking, obsVars, tailVars>>

\* lines 57-65: lines = self.tail(file.name, tail_lines), then
\* self._callback(file.name, lines) when there are any
InitTail(cbRaises) ==
    /\ pc = "init_tail"
    /\ LET h == files_map[cur].file
           p == handles[h].name
           lines == TailOf(ByteFile(size[fs[p]]), tail_lines)
       IN  IF tail_lines <= 0
           THEN /\ ~cbRaises
                /\ Raise("ValueError")
                /\ UNCHANGED <<calls, raises>>
           ELSE IF ~Exists(p) \/ lines = <<>>
           THEN /\ ~cbRaises
                /\ cur' = NoFid
                /\ Goto(InitNext(todo))
                /\ UNCHANGED <<calls, raises, err, after, ls>>
           ELSE /\ calls' = Append(calls, Call2(p, lines))
                /\ IF ~cbLenient
                   THEN /\ ~cbRaises
                        /\ Raise("TypeError")
                        /\ UNCHANGED raises
                   ELSE IF cbRaises
                   THEN /\ raises < MaxRaises
                        /\ raises' = raises + 1
                        /\ Raise("CallbackError")
                   ELSE /\ cur' = NoFid
                        /\ Goto(InitNext(todo))
                        /\ UNCHANGED <<raises, err, after, ls>>
    /\ UNCHANGED <<fsVars, objVars, ctx, blocking, nclose, tailVars>>

\* ------------------------------------------------------------------------
\* update_files
\* ------------------------------------------------------------------------
\* lines 148-163: os.stat of one entry of self.filelist; a name that is
\* absent is skipped
UpdateStat ==
    /\ pc = "uf_stat"
    /\ LET e  == FileList[idx]
           l2 == IF Exists(e.name)
                 THEN Append(ls, [fid |-> get_file_id(OsStat(e.name)),
                                  name |-> e.name, type |-> e.type])
                 ELSE ls
       IN  /\ ls' = l2
           /\ rots' = IF idx = 1 /\ rots = 1 THEN 0 ELSE rots
           /\ IF idx < Len(FileList)
              THEN pc' = pc /\ idx' = idx + 1 /\ todo' = todo
              ELSE Goto(CheckNext(DOMAIN files_map, l2, files_map))
    /\ UNCHANGED <<fs, size, ninodes, objVars, ctx, blocking, cur, after, err, obsVars, tailVars>>

\* lines 166-179: os.stat(file.name) of one entry of the snapshot; a name
\* that is gone or is under another file id has the entry unwatched
UpdateCheck(fid) ==
    /\ pc = "uf_check"
    /\ fid \in todo
    /\ LET p == handles[files_map[fid].file].name
       IN  IF ~Exists(p) \/ fid # get_file_id(OsStat(p))
           THEN /\ pc' = "uw_read"
                /\ cur' = fid
                /\ after' = IF Exists(p) THEN "rewatch" ELSE "check"
                /\ todo' = todo \ {fid}
                /\ idx' = idx
           ELSE /\ Goto(CheckNext(todo \ {fid}, ls, files_map))
                /\ UNCHANGED <<cur, after>>
    /\ UNCHANGED <<fsVars, objVars, ctx, blocking, ls, err, obsVars, tailVars>>

\* line 179: self.watch(file.name), a call of watch(self, fname, _type)
\* with one argument short
Rewatch ==
    /\ pc = "uf_rewatch"
    /\ Raise("TypeError")
    /\ UNCHANGED <<fsVars, objVars, ctx, blocking, obsVars, tailVars>>

\* ------------------------------------------------------------------------
\* unwatch
\* ------------------------------------------------------------------------
\* lines 212-214: inside `with file:`, one pass of the loop of readlines();
\* when no line is left the entry is deleted and the with block closes the
\* file.  An exception leaves the with block, which closes the file, before
\* the del.
UnwatchRead(cbRaises) ==
    /\ pc = "uw_read"
    /\ LET i == files_map[cur].file
           h == handles[i]
           t == files_map[cur].type
       IN  IF ~h.open
           THEN /\ ~cbRaises
                /\ Raise("ValueError")
                /\ UNCHANGED <<handles, files_map, calls, raises>>
           ELSE IF HasLines(h)
           THEN /\ calls' = Append(calls, Call3(i, h, BatchHi(h), t, "unwatch"))
                /\ files_map' = files_map
                /\ IF cbRaises
                   THEN /\ raises < MaxRaises
                        /\ raises' = raises + 1
                        /\ handles' = [handles EXCEPT
                                         ![i] = Closed(Advance(h, BatchHi(h)))]
                        /\ Raise("CallbackError")
                   ELSE /\ handles' = [handles EXCEPT ![i] = Advance(h, BatchHi(h))]
                        /\ UNCHANGED <<raises, pc, idx, todo, cur, after, ls, err>>
           ELSE /\ ~cbRaises
                /\ files_map' = MapDel(files_map, cur)
                /\ handles' = [handles EXCEPT ![i] = Closed(h)]
                /\ cur' = NoFid
                /\ after' = "none"
                /\ IF after = "rewatch"
                   THEN pc' = "uf_rewatch" /\ idx' = idx /\ todo' = todo
                   ELSE Goto(CheckNext(todo, ls, files_map'))
                /\ UNCHANGED <<calls, raises, ls, err>>
    /\ UNCHANGED <<fsVars, tail_lines, cbLenient, ctx, blocking, nclose, tailVars>>

\* ------------------------------------------------------------------------
\* watch
\* ------------------------------------------------------------------------
\* lines 183-184, 198: `if fid not in self._files_map` held for ls[idx];
\* file = self.open(fname); a name that is gone is swallowed
WatchOpen ==
    /\ pc = "w_open"
    /\ LET e == ls[idx]
       IN  IF ~Exists(e.name)
           THEN /\ Goto(AddFrom(idx + 1, ls, files_map))
                /\ UNCHANGED handles
           ELSE /\ handles' = Append(handles, NewHandle(e.name))
                /\ pc' = "w_stat"
                /\ UNCHANGED <<idx, todo>>
    /\ UNCHANGED <<fsVars, files_map, tail_lines, cbLenient, ctx, blocking, ls,
                   cur, after, err, obsVars, tailVars>>

\* the key watch() files the new file object under
WatchKey(p) == get_file_id(OsStat(p))

\* lines 199-205: fid = self.get_file_id(os.stat(fname)); a name that is gone
\* is swallowed, else self._files_map[fid] = [file, _type]
WatchStat ==
    /\ pc = "w_stat"
    /\ LET e == ls[idx]
           m == IF Exists(e.name)
                THEN MapPut(files_map, WatchKey(e.name),
                            [file |-> Len(handles), type |-> e.type])
                ELSE files_map
       IN  /\ files_map' = m
           /\ Goto(AddFrom(idx + 1, ls, m))
    /\ UNCHANGED <<fsVars, handles, tail_lines, cbLenient, ctx, blocking, ls,
                   cur, after, err, obsVars, tailVars>>

\* ------------------------------------------------------------------------
\* loop, readlines
\* ------------------------------------------------------------------------
\* line 76: loop(interval, blocking) is called, on the constructed object or
\* again after an earlier call raised
LoopCall(b) ==
    /\ \/ pc = "idle"
       \/ pc = "raised" /\ ctx = "loop"
    /\ blocking' = b
    /\ ctx' = "loop"
    /\ err' = "none"
    /\ pc' = "uf_stat"
    /\ idx' = 1
    /\ ls' = <<>>
    /\ UNCHANGED <<fsVars, objVars, todo, cur, after, obsVars, tailVars>>

\* lines 86-88, 190-194: one pass of the loop of readlines() on one entry of
\* the snapshot: a batch is handed to the callback, or no line is left and
\* the for loop moves on
LoopRead(fid, cbRaises) ==
    /\ pc = "lp_read"
    /\ IF cur = NoFid THEN fid \in todo ELSE fid = cur
    /\ LET i == files_map[fid].file
           h == handles[i]
           t == files_map[fid].type
       IN  IF ~h.open
           THEN /\ ~cbRaises
                /\ Raise("ValueError")
                /\ UNCHANGED <<handles, calls, raises>>
           ELSE IF HasLines(h)
           THEN /\ calls' = Append(calls, Call3(i, h, BatchHi(h), t, "read"))
                /\ handles' = [handles EXCEPT ![i] = Advance(h, BatchHi(h))]
                /\ IF cbRaises
                   THEN /\ raises < MaxRaises
                        /\ raises' = raises + 1
                        /\ Raise("CallbackError")
                   ELSE /\ cur' = fid
                        /\ UNCHANGED <<raises, pc, idx, todo, after, ls, err>>
           ELSE /\ ~cbRaises
                /\ cur' = NoFid
                /\ Goto(ReadNext(todo \ {fid}))
                /\ UNCHANGED <<handles, calls, raises, after, ls, err>>
    /\ UNCHANGED <<fsVars, files_map, tail_lines, cbLenient, ctx, blocking, nclose, tailVars>>

\* line 91: time.sleep(interval), then the next cycle
Sleep ==
    /\ pc = "sleep"
    /\ pc' = "uf_stat"
    /\ idx' = 1
    /\ ls' = <<>>
    /\ UNCHANGED <<fsVars, objVars, ctx, blocking, todo, cur, after, err, obsVars, tailVars>>

\* ------------------------------------------------------------------------
\* close (also __exit__ and __del__)
\* ------------------------------------------------------------------------
InTable(i) == \E k \in DOMAIN files_map : files_map[k].file = i

CloseNone(hs) == hs

CloseAll(hs) == [i \in DOMAIN hs |-> IF InTable(i) THEN Closed(hs[i]) ELSE hs[i]]

Close ==
    /\ pc \in {"idle", "raised", "closed"}
    /\ nclose < MaxClose
    /\ handles' = CloseAll(handles)
    /\ files_map' = EmptyMap
    /\ nclose' = nclose + 1
    /\ pc' = "closed"
    /\ ctx' = "none"
    /\ UNCHANGED <<fsVars, tail_lines, cbLenient, blocking, ls, idx, todo, cur,
                   after, err, calls, raises, tailVars>>

\* ------------------------------------------------------------------------
\* The other processes: writers and the rotation
\* ------------------------------------------------------------------------
Running == pc \notin {"new", "closed"}

\* files a writer can still reach: under a watched name, or held open
Live == {fs[p] : p \in Paths} \cup {handles[i].ino : i \in DOMAIN handles}

AtRest == pc \in {"idle", "sleep"}

\* a writer appends one line
AppendLine(i) ==
    /\ Running
    /\ i \in Live \ {0}
    /\ size[i] < MaxLines
    /\ size' = [size EXCEPT ![i] = @ + 1]
    /\ UNCHANGED <<fs, ninodes, rots, objVars, ctlVars, obsVars, tailVars>>

\* the file under p is renamed away or deleted
Remove(p) ==
    /\ Running
    /\ Exists(p)
    /\ fs' = [fs EXCEPT ![p] = 0]
    /\ rots' = IF AtRest /\ rots = 0 THEN 1 ELSE 2
    /\ UNCHANGED <<size, ninodes, objVars, ctlVars, obsVars, tailVars>>

\* a new, empty file is created under p, where none was or over the one
\* that was
Create(p) ==
    /\ Running
    /\ ninodes < MaxInode
    /\ ninodes' = ninodes + 1
    /\ fs' = [fs EXCEPT ![p] = ninodes + 1]
    /\ rots' = IF ~AtRest THEN 2
               ELSE IF ~Exists(p) THEN rots
               ELSE IF rots = 0 THEN 1 ELSE 2
    /\ UNCHANGED <<size, objVars, ctlVars, obsVars, tailVars>>

Env ==
    \/ \E i \in Inodes : AppendLine(i)
    \/ \E p \in Paths : Remove(p)
    \/ \E p \in Paths : Create(p)

\* ------------------------------------------------------------------------
\* Specification of the watcher
\* ------------------------------------------------------------------------
TailIdle ==
    /\ tfile = MkFile(<<>>, 0)
    /\ twindow = 1
    /\ tstate = TailEnter
    /\ tpc = "idle"
    /\ tresult = <<>>

Init ==
    /\ fs \in [Paths -> {0} \cup Inodes]
    /\ \A p \in Paths : fs[p] \in {0, FirstInode(p)}
    /\ size \in [Inodes -> 0..MaxLines]
    /\ \A i \in Inodes : size[i] # 0 => \E p \in Paths : fs[p] = i
    /\ ninodes = Cardinality(Paths)
    /\ rots = 0
    /\ handles = <<>>
    /\ files_map = EmptyMap
    /\ tail_lines = 0
    /\ cbLenient = FALSE
    /\ pc = "new"
    /\ ctx = "none"
    /\ blocking = FALSE
    /\ ls = <<>>
    /\ idx = 1
    /\ todo = {}
    /\ cur = NoFid
    /\ after = "none"
    /\ err = "none"
    /\ calls = <<>>
    /\ raises = 0
    /\ nclose = 0
    /\ TailIdle

Watcher ==
    \/ \E c \in ConstructInputs : Construct(c[1], c[2])
    \/ \E fid \in todo : InitSeek(fid)
    \/ \E r \in BOOLEAN : InitTail(r)
    \/ UpdateStat
    \/ \E fid \in todo : UpdateCheck(fid)
    \/ Rewatch
    \/ \E r \in BOOLEAN : UnwatchRead(r)
    \/ WatchOpen
    \/ WatchStat
    \/ \E b \in BOOLEAN : LoopCall(b)
    \/ \E fid \in DOMAIN files_map, r \in BOOLEAN : LoopRead(fid, r)
    \/ Sleep
    \/ Close

Next == Watcher \/ Env

Spec == Init /\ [][Next]_vars

\* ------------------------------------------------------------------------
\* Specification of tail() called on its own
\* ------------------------------------------------------------------------
TailFiles ==
    {MkFile(lens, tr) :
        lens \in UNION {[1..n -> LineLens] : n \in 0..MaxTailLines}, tr \in Trails}

\* lines 116-117: a window that is not positive raises ValueError before the
\* file is opened; lines 118-129: else the locals are set
TailCall ==
    /\ tpc = "call"
    /\ IF twindow <= 0
       THEN tpc' = "error" /\ tstate' = tstate
       ELSE tpc' = "loop" /\ tstate' = TailEnter
    /\ UNCHANGED <<fsVars, objVars, ctlVars, obsVars, tfile, twindow, tresult>>

\* lines 130-143: one pass of the while loop
TailBlock ==
    /\ tpc = "loop"
    /\ ~TailLoopDone(tstate)
    /\ tstate' = TailIter(tfile, twindow, tstate)
    /\ UNCHANGED <<fsVars, objVars, ctlVars, obsVars, tfile, twindow, tpc, tresult>>

\* line 144
TailReturn ==
    /\ tpc = "loop"
    /\ TailLoopDone(tstate)
    /\ tresult' = TailResult(tfile, twindow, tstate)
    /\ tpc' = "done"
    /\ UNCHANGED <<fsVars, objVars, ctlVars, obsVars, tfile, twindow, tstate>>

InitTailOnly ==
    /\ fs = [p \in Paths |-> 0]
    /\ size = [i \in Inodes |-> 0]
    /\ ninodes = Cardinality(Paths)
    /\ rots = 0
    /\ handles = <<>>
    /\ files_map = EmptyMap
    /\ tail_lines = 0
    /\ cbLenient = FALSE
    /\ pc = "new"
    /\ ctx = "none"
    /\ blocking = FALSE
    /\ ls = <<>>
    /\ idx = 1
    /\ todo = {}
    /\ cur = NoFid
    /\ after = "none"
    /\ err = "none"
    /\ calls = <<>>
    /\ raises = 0
    /\ nclose = 0
    /\ tfile \in TailFiles
    /\ twindow \in TailWindows
    /\ tstate = TailEnter
    /\ tpc = "call"
    /\ tresult = <<>>

NextTail == TailCall \/ TailBlock \/ TailReturn

SpecTail == InitTailOnly /\ [][NextTail]_vars

\* ------------------------------------------------------------------------
\* Specification of the watcher beside a writer that never stops
\* ------------------------------------------------------------------------
\* the invocations cs with the lines of file i renumbered after its oldest
\* line, which no cursor can reach any more, is forgotten
Forget(cs, i) ==
    LET kept == SelectSeq(cs, LAMBDA c : c.ino # i \/ c.hi >= 2)
    IN  [n \in DOMAIN kept |->
            IF kept[n].ino = i
            THEN [kept[n] EXCEPT !.lo = Max(@ - 1, 0), !.hi = @ - 1]
            ELSE kept[n]]

\* a writer appends one more line to a file that already holds MaxLines: the
\* lines are counted from the second of them on, every cursor being past the
\* first
AppendMore(i) ==
    /\ Running
    /\ i \in Live \ {0}
    /\ size[i] = MaxLines
    /\ \A j \in DOMAIN handles : handles[j].ino = i => handles[j].pos >= 1
    /\ handles' = [j \in DOMAIN handles |->
                     IF handles[j].ino = i
                     THEN [handles[j] EXCEPT !.pos = @ - 1,
                                             !.start = Max(@ - 1, 0),
                                             !.eof0 = Max(@ - 1, 0)]
                     ELSE handles[j]]
    /\ calls' = Forget(calls, i)
    /\ UNCHANGED <<fsVars, files_map, tail_lines, cbLenient, ctlVars, raises,
                   nclose, tailVars>>

\* the watcher where no name is rotated
NextRead ==
    \/ \E c \in ConstructInputs : Construct(c[1], c[2])
    \/ \E fid \in todo : InitSeek(fid)
    \/ \E r \in BOOLEAN : InitTail(r)
    \/ UpdateStat
    \/ \E fid \in todo : UpdateCheck(fid)
    \/ WatchOpen
    \/ WatchStat
    \/ \E b \in BOOLEAN : LoopCall(b)
    \/ \E fid \in DOMAIN files_map, r \in BOOLEAN : LoopRead(fid, r)
    \/ Sleep
    \/ Close
    \/ \E i \in Inodes : AppendLine(i)
    \/ \E i \in Inodes : AppendMore(i)

\* readlines() goes on whenever it can: the thread of the watcher is not
\* starved
SpecRead ==
    /\ Init
    /\ [][NextRead]_vars
    /\ WF_vars(\E fid \in DOMAIN files_map : LoopRead(fid, FALSE))

\* ------------------------------------------------------------------------
\* Claims
\* ------------------------------------------------------------------------

\* C5 (as claimed): tail(path, N) with N >= 1 returns exactly the last
\* min(N, K) lines of a file of K lines, each a whole line, in file order.
C5_TailLastLines ==
    tpc = "done" => tresult = LastN(FileLines(tfile), twindow)

\* the line numbers lo+1 .. hi
Range(lo, hi) == [k \in 1..(hi - lo) |-> lo + k]

\* the lines of a sequence of callback invocations, in order
RECURSIVE LinesOf(_)
LinesOf(cs) ==
    IF cs = <<>> THEN <<>> ELSE Range(cs[1].lo, cs[1].hi) \o LinesOf(Tail(cs))

\* the batches of the incremental reads made through file object i
Incremental(i) == SelectSeq(calls, LAMBDA c : c.nargs = 3 /\ c.file = i)

\* the batches the callback received that came from file ino
Received(ino) == SelectSeq(calls, LAMBDA c : c.recv /\ c.ino = ino)

\* file object i was watched by __init__, is in the table, and its name has
\* referred to its file ever since (a name never returns to an earlier file)
FromConstruction(i) ==
    /\ handles[i].ctor
    /\ InTable(i)
    /\ fs[handles[i].name] = handles[i].ino

\* C1 (as claimed): for a file watched from construction and only appended
\* to, all batches the callback received for it, concatenated in order, are
\* exactly the lines after the cursor that __init__ placed, up to the cursor.
C1_AllBatchesExact ==
    \A i \in DOMAIN handles :
        FromConstruction(i) =>
            LinesOf(Received(handles[i].ino)) = Range(handles[i].start, handles[i].pos)

\* C1 (amended): the same of the batches of the incremental reads; the batch
\* of the startup tail is not among them.
C1_IncrementalExact ==
    \A i \in DOMAIN handles :
        FromConstruction(i) =>
            LinesOf(Incremental(i)) = Range(handles[i].start, handles[i].pos)

C1_Witness ==
    \E i \in DOMAIN handles :
        /\ FromConstruction(i)
        /\ handles[i].pos >= handles[i].start + 2
        /\ Len(Incremental(i)) >= 2
        /\ pc = "idle"

\* no line was delivered twice by the incremental reads
NoRepeat ==
    \A m, n \in DOMAIN calls :
        (m < n /\ calls[m].nargs = 3 /\ calls[n].nargs = 3
               /\ calls[m].ino = calls[n].ino)
            => calls[n].lo >= calls[m].hi

Delivered(ino, k) ==
    \E n \in DOMAIN calls : calls[n].recv /\ calls[n].ino = ino /\ calls[n].lo < k /\ k <= calls[n].hi

\* a file created under p after the watcher started holds a line the
\* callback has not received
Pending(p) ==
    /\ Exists(p)
    /\ fs[p] > Cardinality(Paths)
    /\ \E k \in 1..size[fs[p]] : ~Delivered(fs[p], k)

\* C2 (as claimed): with every rotation between two poll cycles and at most
\* one between the same two, and a callback that does not raise, no line is
\* delivered twice and loop() does not end while a line written under the
\* name is undelivered.
C2_RotationDelivers ==
    (rots < 2 /\ raises = 0) =>
        /\ NoRepeat
        /\ ~(pc = "raised" /\ ctx = "loop" /\ \E p \in Paths : Pending(p))

\* unwatch() returns: the step that deletes the entry being unwatched
UnwatchReturns ==
    /\ pc = "uw_read"
    /\ cur \in DOMAIN files_map
    /\ cur \notin DOMAIN files_map'

\* C3 (as claimed): when reconcile finds a watched name gone or replaced and
\* unwatch() returns, the lines written to the old file after its cursor
\* was placed have been delivered, each once and in order, and the lines L1
\* of the final read were delivered before any line of a file created
\* later.
C3_RotationFlush ==
    [][UnwatchReturns =>
        LET i == files_map[cur].file
            h == handles[i]
        IN  /\ LinesOf(SelectSeq(calls', LAMBDA c : c.nargs = 3 /\ c.file = i))
                 = Range(h.start, Max(size'[h.ino], h.start))
            /\ \A m, n \in DOMAIN calls' :
                  (calls'[n].via = "unwatch" /\ calls'[n].file = i
                       /\ calls'[m].ino > h.ino)
                      => n < m]_vars

\* C4 (as claimed): a reconcile that finds a watched name under another file
\* id does not raise, and the cycle ends with every entry of a name that
\* exists filed under the id of the file under that name.
C4_ReconcileRewatches ==
    /\ ~(pc = "raised" /\ ctx = "loop" /\ err = "TypeError")
    /\ (AtRest /\ ctx = "loop" /\ rots = 0) =>
          \A k \in DOMAIN files_map :
              LET p == handles[files_map[k].file].name
              IN  Exists(p) => k = get_file_id(OsStat(p))

\* the metadata filelist gives for a name
TypeOf(p) == FileList[CHOOSE k \in DOMAIN FileList : FileList[k].name = p].type

\* C6 (as claimed): every invocation of the callback passes three arguments:
\* the path, a batch that is not empty, and the metadata of the entry.
C6_ThreeArguments ==
    \A n \in DOMAIN calls :
        /\ calls[n].nargs = 3
        /\ calls[n].hi > calls[n].lo
        /\ calls[n].type = TypeOf(calls[n].name)

\* C7 (as claimed): no incremental read delivers a line that was in the file
\* when it was opened by watch().
C7_CursorAtEof ==
    \A n \in DOMAIN calls :
        calls[n].nargs = 3 => calls[n].lo >= handles[calls[n].file].eof0

\* C7 (amended): a file watched by __init__ whose name was not rotated before
\* the seek of line 56 has none of the lines it had when opened delivered by
\* an incremental read; a file watched in a later poll cycle is read from
\* offset 0.
C7_CursorAtSeekOrZero ==
    \A i \in DOMAIN handles :
        LET h == handles[i]
            cs == Incremental(i)
        IN  /\ (h.ctor /\ h.sized = h.ino) =>
                   \A n \in DOMAIN cs : cs[n].lo >= h.eof0
            /\ ~h.ctor => LinesOf(cs) = Range(0, h.pos)

C7_Witness ==
    \E i \in DOMAIN handles :
        /\ ~handles[i].ctor
        /\ handles[i].eof0 > 0
        /\ \E n \in DOMAIN calls :
              calls[n].nargs = 3 /\ calls[n].file = i /\ calls[n].lo = 0

\* C8 (as claimed): the batch of the startup tail reaches the callback, and
\* no later incremental read delivers one of its lines again.
C8_TailOnce ==
    \A m \in DOMAIN calls :
        calls[m].via = "tail" =>
            /\ calls[m].recv
            /\ \A n \in DOMAIN calls :
                  (calls[n].nargs = 3 /\ calls[n].ino = calls[m].ino)
                      => calls[n].lo >= calls[m].hi

\* C9 (as claimed): every file object opened by watch() and still open is in
\* the table (or is the one watch() is about to file), under one key, and no
\* file object is closed twice.
C9_HandlesOwned ==
    \A i \in DOMAIN handles :
        /\ handles[i].open => (InTable(i) \/ (pc = "w_stat" /\ i = Len(handles)))
        /\ Cardinality({k \in DOMAIN files_map : files_map[k].file = i}) <= 1
        /\ handles[i].closes <= 1

\* C10: close() leaves every file object of the table closed and the table
\* empty, raises nothing, and so does a second close().
C10_CloseReleasesAll ==
    [][nclose' = nclose + 1 =>
        /\ files_map' = EmptyMap
        /\ \A i \in DOMAIN handles : InTable(i) => ~handles'[i].open
        /\ pc' = "closed"
        /\ err' = err]_vars

C10_Witness ==
    /\ nclose = 2
    /\ \E i \in DOMAIN handles : ~handles[i].open
    /\ \A n \in DOMAIN calls : calls[n].via # "unwatch"
    /\ raises = 0

\* C11 (as claimed): the incremental read of a watched file ends and control
\* goes back to the polling loop, also beside a writer that keeps appending
\* to the file.
C11_ReadReturns == (pc = "lp_read") ~> (pc # "lp_read")

\* control is inside update_files(), or unwatch() or watch() called by it
InReconcile == pc \in {"uf_stat", "uf_check", "uw_read", "uf_rewatch", "w_open", "w_stat"}

\* C12: loop() returns only when blocking is false, at the end of its first
\* cycle and without sleeping; a reconcile begins only at construction, at a
\* call of loop() or after the sleep; the reads of a cycle begin when its
\* reconcile has ended, on every entry the table then has, each entry is read
\* to its end once, and no reconcile runs before the last of them.
C12_OneCycle ==
    [][/\ (ctx = "loop" /\ pc # "idle" /\ pc' = "idle") =>
              /\ ~blocking
              /\ pc = "lp_read" \/ (InReconcile /\ files_map' = EmptyMap)
              /\ todo' = {}
       /\ pc' = "sleep" => blocking
       /\ (pc' = "uf_stat" /\ pc # "uf_stat") => pc \in {"new", "idle", "raised", "sleep"}
       /\ (pc = "sleep" /\ pc' # "sleep") => pc' = "uf_stat"
       /\ (pc' = "lp_read" /\ pc # "lp_read") =>
              /\ InReconcile
              /\ todo' = DOMAIN files_map'
              /\ cur' = NoFid
       /\ pc = "lp_read" =>
              /\ pc' \in {"lp_read", "idle", "sleep", "raised"}
              /\ files_map' = files_map
              /\ (todo' # todo /\ pc' # "raised") =>
                    \E fid \in todo :
                        /\ todo' = todo \ {fid}
                        /\ handles[files_map[fid].file].pos >= size[handles[files_map[fid].file].ino]
              /\ pc' \in {"idle", "sleep"} => todo' = {}]_vars

C12_Witness ==
    /\ pc = "idle"
    /\ ctx = "loop"
    /\ ~blocking
    /\ err = "none"
    /\ \E n \in DOMAIN calls : calls[n].via = "read"
    /\ \E k \in DOMAIN files_map : handles[files_map[k].file].open

\* name p has an entry in the table
Watched(p) == \E k \in DOMAIN files_map : handles[files_map[k].file].name = p

\* C13 (as claimed): no file-not-found error reaches the caller of __init__
\* or loop(), and a poll cycle during which no name was created, removed or
\* replaced ends with every name that exists watched.
C13_NotFoundSwallowed ==
    [][/\ err' # "OSError"
       /\ (ctx = "loop" /\ ~AtRest /\ AtRest' /\ rots' = 0) =>
              \A p \in Paths : Exists(p) => Watched(p)']_vars

\* tail() with a window that is not positive raises before the file is opened
TailRejects == (twindow <= 0 /\ tpc # "idle") => tpc \in {"call", "error"}

\* C14 (as claimed): tail(path, N) with N <= 0 raises before it opens the
\* file, and no watcher is constructed with a negative tail_lines, whatever
\* names exist.
C14_NonPositiveRejected ==
    /\ TailRejects
    /\ ~(tail_lines < 0 /\ ctx = "init" /\ pc = "idle")

\* the entries the next pass of readlines() in loop() can be about
ReadCandidates == IF cur = NoFid THEN todo ELSE {cur}

\* the watcher takes a step in the for loop of loop()
ReadStep == pc = "lp_read" /\ (ctlVars' # ctlVars \/ calls' # calls \/ handles' # handles)

\* the cursor of the file object of entry fid is at or past the end of file
AtEof(fid) ==
    LET h == handles[files_map[fid].file]
    IN  h.open /\ h.pos >= size[h.ino]

\* C15: readlines() on a watched file with nothing after its cursor calls the
\* callback no time, raises nothing, and leaves the cursor, the file objects
\* and the table as they were, so that doing it again changes nothing either.
C15_EmptyReadNoEffect ==
    [][(ReadStep /\ \A fid \in ReadCandidates : AtEof(fid)) =>
          /\ calls' = calls
          /\ raises' = raises
          /\ handles' = handles
          /\ files_map' = files_map
          /\ err' = err
          /\ pc' # "raised"]_vars

C15_Witness ==
    /\ pc = "idle"
    /\ ctx = "loop"
    /\ calls = <<>>
    /\ err = "none"
    /\ \E k \in DOMAIN files_map :
          /\ AtEof(k)
          /\ handles[files_map[k].file].pos >= 1

\* the watcher takes a step inside unwatch()
UnwatchStep == pc = "uw_read" /\ (ctlVars' # ctlVars \/ calls' # calls \/ handles' # handles)

\* C16 (as claimed): every step of unwatch() finds the file object open; the
\* file object is closed only in the step that removes its entry, when no
\* line is left after its cursor; and the step that removes the entry leaves
\* the file object closed.
C16_UnwatchOrder ==
    [][UnwatchStep =>
          LET i == files_map[cur].file
              h == handles[i]
          IN  /\ h.open
              /\ ~handles'[i].open =>
                    /\ cur \notin DOMAIN files_map'
                    /\ h.pos >= size[h.ino]
              /\ cur \notin DOMAIN files_map' => ~handles'[i].open]_vars

\* the last n bytes of file f, in file order
Suffix(f, n) == [k \in 1..n |-> f.size - n + k - 1]

\* C17: in the scan of tail(), after every pass of the while loop data is a
\* suffix of the file, one block of BUFSIZ bytes per pass until the final
\* pass; the final pass reads the part of the file the blocks have not
\* covered, so data is then the whole file; and the scan ends, for every
\* file length and every N >= 1: a pass ends the loop or moves on to the
\* block before, and there are no more passes than the file has blocks,
\* begun ones included.
C17_ScanSuffix ==
    [][/\ tpc' \in {"loop", "done"} =>
            /\ Len(tstate'.data) <= tfile.size
            /\ tstate'.data = Suffix(tfile, Len(tstate'.data))
            /\ tstate'.exit => tstate'.data = WholeFile(tfile)
            /\ (~tstate'.exit /\ tstate'.data # <<>>) =>
                  Len(tstate'.data) = Abs(tstate'.block + (IF tstate'.brk THEN 0 ELSE 1)) * BUFSIZ
            /\ Abs(tstate'.block) * BUFSIZ <= tfile.size + 2 * BUFSIZ
       /\ (tpc = "loop" /\ tpc' = "loop") =>
            /\ ~TailLoopDone(tstate)
            /\ TailLoopDone(tstate') \/ tstate'.block < tstate.block
            /\ Len(tstate'.data) >= Len(tstate.data)
       /\ tpc = "loop" => twindow >= 1]_vars

C17_Witness ==
    /\ tpc = "done"
    /\ tstate.exit
    /\ tstate.block <= -2
    /\ tfile.size % BUFSIZ # 0
    /\ tstate.data = WholeFile(tfile)

FileIdOf(i) == get_file_id([st_dev |-> Dev, st_ino |-> handles[i].ino])

\* C19 (as claimed): every entry of the table is filed under the identity of
\* the file its file object is open on, and no two entries have file objects
\* on the same file.
C19_KeyedByOpenFile ==
    /\ \A k \in DOMAIN files_map : k = FileIdOf(files_map[k].file)
    /\ \A k1, k2 \in DOMAIN files_map :
          FileIdOf(files_map[k1].file) = FileIdOf(files_map[k2].file) => k1 = k2

\* C20 (as claimed): every file object of the table is open, also after the
\* callback raised out of unwatch(), update_files() or loop(), and no step
\* attempts a read on a closed file object.
C20_TableHandlesOpen ==
    /\ \A k \in DOMAIN files_map : handles[files_map[k].file].open
    /\ ~(pc = "raised" /\ ctx = "loop" /\ err = "ValueError")

====
